---- MODULE Spec2Model ----
(***************************************************************************)
(* Diya analytics bot: the LangGraph turn pipeline of agent.py             *)
(* (selector -> loader -> model -> tools -> model ...), the /chat handler   *)
(* of main.py that runs it on one shared thread, and the pure helpers      *)
(* filter_fields and get_summary.                                          *)
(*                                                                         *)
(* Python values are tagged records [kind, val]; a dict is a TLA+ function *)
(* from its keys, a list is a sequence.  The language model and the Apps   *)
(* Script endpoint are the environment: their outputs are drawn from the   *)
(* small sets SelectorOutputs, ModelResponses and Responses.               *)
(***************************************************************************)
EXTENDS Integers, Sequences, FiniteSets, TLC

VARIABLES
    memory,         \* MemorySaver: thread id -> latest checkpointed AgentState
    st,             \* request -> channel values of the graph run serving it
    pc,             \* request -> next node of the graph ("idle" before a turn)
    nsteps,         \* request -> supersteps executed in the running turn
    steps,          \* request -> the steps the turn has executed, in order
    response,       \* request -> content of the selector's oracle response
    relevant_data,  \* request -> the view model() last serialised in its prompt
    err,            \* request -> exception that ended the turn ("" if none)
    reply,          \* request -> QueryResponse.reply of the last finished turn
    ff,             \* filter_fields harness: [data, fields_to_keep, result, pc]
    gs              \* get_summary harness: [state, sheet_name, id_field, id_value, result, pc]

vars == <<memory, st, pc, nsteps, steps, response, relevant_data, err, reply, ff, gs>>
turn_vars == <<memory, st, pc, nsteps, steps, response, relevant_data, err, reply>>

-----------------------------------------------------------------------------
(* Bounds of the model *)

\* The POST /chat requests the server receives, in order of arrival, and the
\* caller that sends each.
Arrivals == <<"r1", "r2">>
caller == ("r1" :> "alice") @@ ("r2" :> "bob")
\* Most rows of a sheet, and longest field list of a selection entry, in the
\* inputs of filter_fields and get_summary taken on their own.
MaxRows == 1
MaxKeep == 2

\* langgraph's default recursion_limit: agent.stream is called with a config
\* that sets none, and the run raises GraphRecursionError after this many
\* supersteps without reaching END.
RecursionLimit == 25

-----------------------------------------------------------------------------
(* Python values *)

PyDict(m) == [kind |-> "dict", val |-> m]
PyList(l) == [kind |-> "list", val |-> l]
PyInt(n)  == [kind |-> "int",  val |-> n]
PyStr(s)  == [kind |-> "str",  val |-> s]
PyNone    == [kind |-> "none", val |-> 0]

EmptyMap == [k \in {} |-> <<>>]

\* len(v) = 0 for the sized values; len() of an int or None raises TypeError.
py_sized(v) == v.kind \in {"dict", "list", "str"}
py_len0(v) ==
    CASE v.kind = "dict" -> DOMAIN v.val = {}
      [] v.kind = "list" -> v.val = <<>>
      [] v.kind = "str"  -> v.val = ""

\* d.get(k, default)
dict_get(d, k, default) == IF k \in DOMAIN d THEN d[k] ELSE default

\* Fields of a row that a Python comprehension over the list `keys` visits.
Range(s) == {s[i] : i \in 1..Len(s)}

-----------------------------------------------------------------------------
(* Sheet catalog: the sheets and fields the selector prompt lists.  Two of  *)
(* the ten sheets, two fields each, stand for the catalog.                  *)

Catalog ==
    ("Checklist" :> {"Task ID", "Status"}) @@ ("Delegation" :> {"Task ID", "Name"})

CatalogSheets == DOMAIN Catalog

\* What the spreadsheet holds when a turn fetches: "Ghost" is no sheet of it.
SourceRows ==
    "Checklist" :> << ("Task ID" :> "T1") @@ ("Status" :> "Pending") @@ ("Name" :> "Asha"),
                      ("Task ID" :> "T2") @@ ("Status" :> "Done") >>

-----------------------------------------------------------------------------
(* filter_fields *)

filter_row(row, keep_fields) ==
    [k \in {f \in Range(keep_fields) : f \in DOMAIN row} |-> row[k]]

\* filter_fields with a sheet that has no selection entry left unprojected
filter_fields_default_all(data, fields_to_keep) ==
    [heading \in DOMAIN data |->
        LET content == data[heading]
            rows    == dict_get(content, "rows", <<>>)
        IN  [rows       |-> IF heading \in DOMAIN fields_to_keep
                            THEN [i \in 1..Len(rows) |->
                                    filter_row(rows[i], fields_to_keep[heading])]
                            ELSE rows,
             total_rows |-> Len(rows)]]

\* filter_fields passing on the total_rows it finds in the loaded data
filter_fields_loaded_total(data, fields_to_keep) ==
    [heading \in DOMAIN data |->
        LET content     == data[heading]
            keep_fields == dict_get(fields_to_keep, heading, <<>>)
            rows        == dict_get(content, "rows", <<>>)
        IN  [rows       |-> [i \in 1..Len(rows) |-> filter_row(rows[i], keep_fields)],
             total_rows |-> dict_get(content, "total_rows", Len(rows))]]

filter_fields(data, fields_to_keep) ==
    [heading \in DOMAIN data |->
        LET content     == data[heading]
            keep_fields == dict_get(fields_to_keep, heading, <<>>)
            rows        == dict_get(content, "rows", <<>>)
        IN  [rows       |-> [i \in 1..Len(rows) |-> filter_row(rows[i], keep_fields)],
             total_rows |-> Len(rows)]]

-----------------------------------------------------------------------------
(* get_summary *)

Digits == <<"0", "1", "2", "3", "4", "5", "6", "7", "8", "9">>

\* str(v) as a sequence of characters; v is a str or a one-digit int
py_str(v) == IF v.kind = "int" THEN <<Digits[v.val + 1]>> ELSE v.val

RECURSIVE lstrip(_)
lstrip(s) == IF s # <<>> /\ Head(s) = " " THEN lstrip(Tail(s)) ELSE s

RECURSIVE rstrip(_)
rstrip(s) ==
    IF s # <<>> /\ s[Len(s)] = " " THEN rstrip(SubSeq(s, 1, Len(s) - 1)) ELSE s

strip(s) == rstrip(lstrip(s))

\* the `for row in rows` loop: the first row it returns, or None
RECURSIVE first_row(_, _, _)
first_row(rows, id_field, id_value) ==
    IF rows = <<>> THEN PyNone
    ELSE IF strip(py_str(dict_get(Head(rows), id_field, PyStr(<<>>))))
                = strip(py_str(id_value))
         THEN PyDict(Head(rows))
         ELSE first_row(Tail(rows), id_field, id_value)

\* [exc, val]: the exception raised, or the value returned
get_summary(sheet_name, id_field, id_value, state) ==
    IF state.data.kind # "dict" THEN [exc |-> "TypeError", val |-> PyNone]
    ELSE IF sheet_name \notin DOMAIN state.data.val
         THEN [exc |-> "KeyError", val |-> PyNone]
    ELSE LET data == state.data.val[sheet_name]
             rows == dict_get(dict_get(data, sheet_name, EmptyMap), "rows", <<>>)
         IN  [exc |-> "", val |-> first_row(rows, id_field, id_value)]

-----------------------------------------------------------------------------
(* Graph nodes.  A node returns [exc, state]: exc = "" and the new channel  *)
(* values, or the exception it raised.                                     *)

Returned(state)    == [exc |-> "", state |-> state]
Raised(exc, state) == [exc |-> exc, state |-> state]

\* json.loads of the oracle's text: a value, or ValueError.
json_loads(content) ==
    IF content.json THEN [ok |-> TRUE, val |-> content.val]
                    ELSE [ok |-> FALSE, val |-> PyNone]

selector(state, content) ==
    LET parsed == json_loads(content)
        sheets == IF parsed.ok THEN parsed.val ELSE PyDict(EmptyMap)
    IN  Returned([state EXCEPT !.relevant_sheets = sheets])

\* data[key]["total_rows"] = len(data[key]["rows"]) - 1, for every key returned
annotate(json) ==
    [key \in DOMAIN json |->
        [rows |-> json[key].rows, total_rows |-> Len(json[key].rows) - 1]]

loader(state, resp) ==
    LET sel == state.relevant_sheets IN
    IF ~py_sized(sel) THEN Raised("TypeError", state)
    ELSE IF py_len0(sel) THEN Returned([state EXCEPT !.data = PyStr("")])
    ELSE IF sel.kind # "dict" THEN Raised("AttributeError", state)
    ELSE IF ~resp.ok THEN Raised("RequestException", state)
    ELSE Returned([state EXCEPT !.data = PyDict(annotate(resp.json))])

\* model(), lines 214-216: the view put in the system prompt.
project(state) ==
    LET sel == state.relevant_sheets IN
    IF sel.kind # "dict" THEN [exc |-> "AttributeError", view |-> EmptyMap]
    ELSE IF DOMAIN sel.val = {} THEN [exc |-> "", view |-> EmptyMap]
    ELSE [exc |-> "", view |-> filter_fields(state.data.val, sel.val)]

\* model(), lines 246-248: the oracle's message is appended to the history.
model(state, ai) ==
    IF project(state).exc # "" THEN Raised(project(state).exc, state)
    ELSE Returned([state EXCEPT !.messages = Append(@, ai)])

LastMessage(state) == state.messages[Len(state.messages)]

\* an unconditional edge from "model" to "tools"
tools_condition_always_tools(state) == "tools"

\* langgraph.prebuilt.tools_condition on the edge leaving "model"
tools_condition(state) ==
    IF Len(LastMessage(state).tool_calls) > 0 THEN "tools" ELSE "END"

get_datetime == "dd-mm-yyyy HH:MM:SS"

\* ToolNode(tools): one tool message per requested invocation, in order
tool_node(state) ==
    LET ai    == LastMessage(state)
        calls == ai.tool_calls
        out   == [i \in 1..Len(calls) |->
                    [role |-> "tool", turn_of |-> ai.turn_of,
                     content |-> get_datetime, tool_calls |-> <<>>]]
    IN  Returned([state EXCEPT !.messages = @ \o out])

-----------------------------------------------------------------------------
(* Environment *)

\* response.content of the selector's oracle call
SelectorOutputs ==
    { [json |-> FALSE, val |-> PyStr("Sure! Checklist")],
      [json |-> TRUE,  val |-> PyDict(EmptyMap)],
      [json |-> TRUE,  val |-> PyDict("Checklist" :> <<"Task ID", "Status">>)],
      [json |-> TRUE,  val |-> PyDict("Ghost" :> <<"Bogus">>)],
      [json |-> TRUE,  val |-> PyList(<<"Checklist">>)],
      [json |-> TRUE,  val |-> PyList(<<>>)],
      [json |-> TRUE,  val |-> PyInt(7)] }

NoRequest == [ok |-> TRUE, json |-> EmptyMap]

\* requests.request(...).json() for ?sheetNames=<keys>: an exception, or the
\* rows of those requested sheets the source returns.
Responses(keys) ==
    {[ok |-> FALSE, json |-> EmptyMap]} \cup
    {[ok |-> TRUE, json |-> [k \in D |-> [rows |-> SourceRows[k]]]] :
        D \in SUBSET (keys \cap DOMAIN SourceRows)}

Fetch(sel) ==
    IF sel.kind = "dict" /\ DOMAIN sel.val # {} THEN Responses(DOMAIN sel.val)
    ELSE {NoRequest}

\* the answer oracle: a text reply, or a request to invoke a tool
ModelResponses(r) ==
    { [role |-> "assistant", turn_of |-> r, content |-> "answer", tool_calls |-> <<>>],
      [role |-> "assistant", turn_of |-> r, content |-> "",
       tool_calls |-> <<"get_datetime">>] }

-----------------------------------------------------------------------------
(* The /chat handler and the graph run it drives *)

\* main.py: one thread id for the process, the same config for every request
thread_id == "thread-uuid4"
config(r) == thread_id

Requests == Range(Arrivals)

Nodes == {"selector", "loader", "model", "tools"}

EmptyState == [messages |-> <<>>, relevant_sheets |-> PyNone, data |-> PyNone]

\* no request received yet
Idle ==
    /\ memory = [t \in {thread_id} |-> EmptyState]
    /\ st = [r \in Requests |-> EmptyState]
    /\ pc = [r \in Requests |-> "idle"]
    /\ nsteps = [r \in Requests |-> 0]
    /\ steps = [r \in Requests |-> <<>>]
    /\ response = [r \in Requests |-> [json |-> FALSE, val |-> PyNone]]
    /\ relevant_data = [r \in Requests |-> EmptyMap]
    /\ err = [r \in Requests |-> ""]
    /\ reply = [r \in Requests |-> ""]

Init ==
    /\ Idle
    /\ ff = [pc |-> "off"]
    /\ gs = [pc |-> "off"]

\* A superstep of the run serving request c: the node returned `r`, having executed the
\* steps `done`; on success the channels are checkpointed and the event's last
\* message becomes the handler's reply.
Superstep(c, r, done, next) ==
    /\ nsteps' = [nsteps EXCEPT ![c] = @ + 1]
    /\ steps' = [steps EXCEPT ![c] = @ \o done]
    /\ IF r.exc = ""
       THEN /\ st' = [st EXCEPT ![c] = r.state]
            /\ memory' = [memory EXCEPT ![config(c)] = r.state]
            /\ pc' = [pc EXCEPT ![c] = next]
            /\ reply' = [reply EXCEPT ![c] = LastMessage(r.state).content]
            /\ err' = err
       ELSE /\ pc' = [pc EXCEPT ![c] = "error"]
            /\ err' = [err EXCEPT ![c] = r.exc]
            /\ UNCHANGED <<st, memory, reply>>

\* POST /chat: agent.stream({"messages": [("user", message)]}, config)
Chat(c) ==
    /\ pc[c] = "idle"
    /\ \A i \in 2..Len(Arrivals) : Arrivals[i] = c => pc[Arrivals[i-1]] # "idle"
    /\ LET user  == [role |-> "user", turn_of |-> c, content |-> "question",
                     tool_calls |-> <<>>]
           state == [memory[config(c)] EXCEPT !.messages = Append(@, user)]
       IN  /\ st' = [st EXCEPT ![c] = state]
           /\ memory' = [memory EXCEPT ![config(c)] = state]
           /\ reply' = [reply EXCEPT ![c] = user.content]
    /\ pc' = [pc EXCEPT ![c] = "selector"]
    /\ nsteps' = [nsteps EXCEPT ![c] = 0]
    /\ steps' = [steps EXCEPT ![c] = <<>>]
    /\ err' = [err EXCEPT ![c] = ""]
    /\ UNCHANGED <<response, relevant_data, ff, gs>>

Selector(c) ==
    /\ pc[c] = "selector" /\ nsteps[c] < RecursionLimit
    /\ \E content \in SelectorOutputs :
        /\ response' = [response EXCEPT ![c] = content]
        /\ Superstep(c, selector(st[c], content), <<"selecting">>, "loader")
    /\ UNCHANGED <<relevant_data, ff, gs>>

Loader(c) ==
    /\ pc[c] = "loader" /\ nsteps[c] < RecursionLimit
    /\ \E resp \in Fetch(st[c].relevant_sheets) :
        Superstep(c, loader(st[c], resp), <<"loading">>, "model")
    /\ UNCHANGED <<response, relevant_data, ff, gs>>

Model(c) ==
    /\ pc[c] = "model" /\ nsteps[c] < RecursionLimit
    /\ \E ai \in ModelResponses(c) :
        LET r == model(st[c], ai) IN
        /\ relevant_data' = [relevant_data EXCEPT ![c] = project(st[c]).view]
        /\ Superstep(c, r,
                     IF r.exc = "" THEN <<"projecting", "answering">>
                                   ELSE <<"projecting">>,
                     tools_condition(r.state))
    /\ UNCHANGED <<response, ff, gs>>

Tools(c) ==
    /\ pc[c] = "tools" /\ nsteps[c] < RecursionLimit
    /\ Superstep(c, tool_node(st[c]), <<"tool-executing">>, "model")
    /\ UNCHANGED <<response, relevant_data, ff, gs>>

\* the run is out of steps before END: GraphRecursionError
Recursion(c) ==
    /\ pc[c] \in Nodes /\ nsteps[c] = RecursionLimit
    /\ pc' = [pc EXCEPT ![c] = "error"]
    /\ err' = [err EXCEPT ![c] = "GraphRecursionError"]
    /\ UNCHANGED <<memory, st, nsteps, steps, response, relevant_data, reply, ff, gs>>

Next ==
    \E c \in Requests :
        Chat(c) \/ Selector(c) \/ Loader(c) \/ Model(c) \/ Tools(c) \/ Recursion(c)

Spec == Init /\ [][Next]_vars

-----------------------------------------------------------------------------
(* filter_fields on its own: every loaded data set against every selection *)

\* sequences over S of length at most n
SeqUpTo(S, n) == UNION {[1..k -> S] : k \in 0..n}

\* dicts from some of the keys K to values in V
Dicts(K, V) == UNION {[D -> V] : D \in SUBSET K}

FilterRows ==
    { ("Task ID" :> "T1") @@ ("Status" :> "Pending"),
      ("Task ID" :> "T2"),
      ("Status" :> "Pending"),
      EmptyMap }

FilterSheets == {"Checklist", "Delegation"}
FilterKeep == {"Task ID", "Bogus"}

\* what the endpoint may return for the two sheets, as response.json()
FilterJson == Dicts(FilterSheets, [rows : SeqUpTo(FilterRows, MaxRows)])

InitFilter ==
    /\ Idle
    /\ gs = [pc |-> "off"]
    /\ \E json \in FilterJson :
       \E keep \in Dicts(FilterSheets, SeqUpTo(FilterKeep, MaxKeep)) :
            ff = [pc |-> "call", json |-> json, data |-> annotate(json),
                  fields_to_keep |-> keep, result |-> EmptyMap]

FilterFields ==
    /\ ff.pc = "call"
    /\ ff' = [ff EXCEPT !.result = filter_fields(ff.data, ff.fields_to_keep),
                        !.pc = "return"]
    /\ UNCHANGED <<turn_vars, gs>>

NextFilter == FilterFields

SpecFilter == InitFilter /\ [][NextFilter]_vars

-----------------------------------------------------------------------------
(* get_summary on its own: every call against every loaded state *)

SummaryRows ==
    { ("Task ID" :> PyStr(<<"T", "1">>)) @@ ("Status" :> PyStr(<<"P">>)),
      ("Task ID" :> PyStr(<<" ", "T", "1", " ">>)),
      ("Task ID" :> PyInt(7)),
      ("Status" :> PyStr(<<"P">>)) }

SummarySheets == {"Checklist"}

\* state["data"] as loader leaves it: "" or the annotated response
SummaryData ==
    {PyStr("")} \cup
    {PyDict(annotate(json)) :
        json \in Dicts(SummarySheets, [rows : SeqUpTo(SummaryRows, MaxRows)])}

InitSummary ==
    /\ Idle
    /\ ff = [pc |-> "off"]
    /\ \E data \in SummaryData :
       \E sheet_name \in SummarySheets \cup {"Ghost"} :
       \E id_field \in {"Task ID", "Bogus"} :
       \E id_value \in {PyStr(<<"T", "1">>), PyStr(<<"7", " ">>), PyInt(7), PyStr(<<"X">>)} :
            gs = [pc |-> "call", state |-> [EmptyState EXCEPT !.data = data],
                  sheet_name |-> sheet_name, id_field |-> id_field,
                  id_value |-> id_value, result |-> [exc |-> "", val |-> PyNone]]

GetSummary ==
    /\ gs.pc = "call"
    /\ gs' = [gs EXCEPT !.result = get_summary(gs.sheet_name, gs.id_field,
                                                gs.id_value, gs.state),
                        !.pc = "return"]
    /\ UNCHANGED <<turn_vars, ff>>

NextSummary == GetSummary

SpecSummary == InitSummary /\ [][NextSummary]_vars

-----------------------------------------------------------------------------
(* Properties *)

Last(s) == s[Len(s)]

InOrder(s, order) ==
    /\ s # <<>> => s[1] = "selecting"
    /\ \A i \in 1..(Len(s) - 1) : <<s[i], s[i + 1]>> \in order

\* the turn state machine as the specification draws it
SpecOrder ==
    { <<"selecting", "loading">>, <<"loading", "projecting">>,
      <<"projecting", "answering">>, <<"answering", "tool-executing">>,
      <<"tool-executing", "answering">> }

\* the same with the projection recomputed on the way back from the tools
CodeOrder ==
    (SpecOrder \ {<<"tool-executing", "answering">>})
        \cup {<<"tool-executing", "projecting">>}

\* where a turn stands after answering: tools iff an invocation was requested,
\* END iff none was
AnsweringBranch(r) ==
    /\ pc[r] = "tools" =>
          /\ Last(steps[r]) = "answering"
          /\ LastMessage(st[r]).tool_calls # <<>>
    /\ pc[r] = "END" =>
          /\ Last(steps[r]) = "answering"
          /\ LastMessage(st[r]).tool_calls = <<>>
    /\ (steps[r] # <<>> /\ Last(steps[r]) = "answering" /\ pc[r] # "error") =>
          pc[r] = (IF LastMessage(st[r]).tool_calls # <<>> THEN "tools" ELSE "END")
    /\ (steps[r] # <<>> /\ Last(steps[r]) = "tool-executing" /\ pc[r] # "error") =>
          pc[r] = "model"

C2_SessionsIndependent ==
    \A r \in Requests :
        \A i \in 1..Len(st[r].messages) :
            caller[st[r].messages[i].turn_of] = caller[r]

\* C3: the selection the selector stores names only catalog sheets and, for
\* each, only fields of that sheet's catalog entry.
C3_SelectionValidated ==
    \A r \in Requests :
        st[r].relevant_sheets.kind = "dict" =>
            \A sheet \in DOMAIN st[r].relevant_sheets.val :
                /\ sheet \in CatalogSheets
                /\ Range(st[r].relevant_sheets.val[sheet]) \subseteq Catalog[sheet]

\* the oracle's text is JSON for a mapping from sheet names to field lists
ExpectedForm(content) == content.json /\ content.val.kind = "dict"

\* C4: after a selector output that is not of the expected form the turn works
\* with the empty selection and no step of it raises on the selection.
C4_MalformedGivesEmpty ==
    \A r \in Requests :
        (steps[r] # <<>> /\ ~ExpectedForm(response[r])) =>
            /\ st[r].relevant_sheets.kind = "dict"
            /\ DOMAIN st[r].relevant_sheets.val = {}
            /\ err[r] \notin {"TypeError", "AttributeError"}

\* C5: a failed fetch never aborts the turn, and once loading is over every
\* selected sheet has a snapshot in the loaded data.
C5_EverySelectedSheetLoaded ==
    \A r \in Requests :
        /\ err[r] # "RequestException"
        /\ (Len(steps[r]) >= 2 /\ pc[r] # "error"
                /\ st[r].relevant_sheets.kind = "dict") =>
              \A sheet \in DOMAIN st[r].relevant_sheets.val :
                  /\ st[r].data.kind = "dict"
                  /\ sheet \in DOMAIN st[r].data.val

\* C6: get_summary on a loaded sheet returns the first row whose id_field,
\* as a trimmed string, equals the trimmed id_value, and None when there is
\* no such row.
C6_SummaryFirstMatch ==
    (/\ gs.pc = "return"
     /\ gs.state.data.kind = "dict"
     /\ gs.sheet_name \in DOMAIN gs.state.data.val) =>
        LET want == first_row(gs.state.data.val[gs.sheet_name].rows,
                              gs.id_field, gs.id_value)
        IN  /\ gs.result.exc = ""
            /\ gs.result.val.kind = want.kind
            /\ want.kind = "dict" => gs.result.val.val = want.val

\* fields the selection lists for a sheet
Selected(keep, heading) ==
    IF heading \in DOMAIN keep THEN Range(keep[heading]) ELSE {}

\* C7: every row filter_fields returns holds exactly the fields that are in
\* the source row and in the selection's list for the sheet, with the source
\* row's values; a sheet without a selection entry yields rows without fields.
C7_ProjectionExact ==
    ff.pc = "return" =>
        /\ DOMAIN ff.result = DOMAIN ff.data
        /\ \A heading \in DOMAIN ff.data :
            LET src == ff.data[heading].rows
                out == ff.result[heading].rows
            IN  /\ Len(out) = Len(src)
                /\ \A i \in 1..Len(src) :
                    /\ DOMAIN out[i] =
                          DOMAIN src[i] \cap Selected(ff.fields_to_keep, heading)
                    /\ \A k \in DOMAIN out[i] : out[i][k] = src[i][k]

\* a sheet projected to one of its two fields with an unknown field asked for,
\* beside a sheet with rows and no selection entry
C7_Witness ==
    /\ ff.pc = "return"
    /\ \E h \in DOMAIN ff.data :
        /\ h \in DOMAIN ff.fields_to_keep
        /\ "Bogus" \in Range(ff.fields_to_keep[h])
        /\ \E i \in 1..Len(ff.data[h].rows) :
            /\ DOMAIN ff.data[h].rows[i] = {"Task ID", "Status"}
            /\ DOMAIN ff.result[h].rows[i] = {"Task ID"}
    /\ \E h \in DOMAIN ff.data :
        /\ h \notin DOMAIN ff.fields_to_keep
        /\ \E i \in 1..Len(ff.data[h].rows) :
            /\ DOMAIN ff.data[h].rows[i] # {}
            /\ DOMAIN ff.result[h].rows[i] = {}

\* C8: total_rows of every sheet of the projected view is the number of rows
\* the endpoint returned for it, whatever the selection.
C8_TotalIsSourceRowCount ==
    ff.pc = "return" =>
        \A heading \in DOMAIN ff.result :
            ff.result[heading].total_rows = Len(ff.json[heading].rows)

\* a projected sheet with rows, one with an empty field list or no entry
C8_Witness ==
    /\ ff.pc = "return"
    /\ \E h \in DOMAIN ff.result :
        /\ Len(ff.json[h].rows) > 0
        /\ Selected(ff.fields_to_keep, h) = {}
        /\ ff.result[h].total_rows = Len(ff.json[h].rows)

\* C9: the view handed to the answer oracle carries, for every sheet, the
\* total_rows the loader recorded for it.
C9_TotalRowsUnchanged ==
    \A r \in Requests :
        st[r].data.kind = "dict" =>
            \A sheet \in DOMAIN relevant_data[r] \cap DOMAIN st[r].data.val :
                relevant_data[r][sheet].total_rows = st[r].data.val[sheet].total_rows

\* C10: the answering / tool-executing loop of every turn ends in done, also
\* when the oracle requests a tool at every answering step: no turn is cut
\* off by the step limit without a reply.
C10_LoopEndsInDone ==
    \A r \in Requests : err[r] # "GraphRecursionError"

====
